---- MODULE Spec2Model ----
(***************************************************************************)
(* Cargo Note Pro (src/app.py): the DataManager record store, its JSON     *)
(* data file, the 04:00 statistical-date rule, the record-view summary and *)
(* the Streamlit handlers of main() that mutate the store.                 *)
(*                                                                         *)
(* Text values.  A Python str the code compares, sorts or concatenates     *)
(* (location names, expense items, route keys) is the sequence of its      *)
(* Unicode code points; Python orders str lexicographically by code point. *)
(* Record types and dictionary keys are only tested for equality and are   *)
(* TLA+ strings:                                                           *)
(*   "Transport" = '화물운송'   "Income"  = '수입'    "Fuel"    = '주유소' *)
(*   "Supply"    = '소모품'     "Expense" = '지출'    "Waiting" = '대기'   *)
(*   "Deadhead"  = '공차이동'   "TripCancelled" = '운행취소'               *)
(*   "TripEnd"   = '운행종료'                                              *)
(* A date string is <<Y, M, D, yw, mw, dw>>: the numbers its three fields   *)
(* read as and the number of digits each is written with ("2025-3-05" is   *)
(* <<2025, 3, 5, 4, 1, 2>>).  A time string "HH:MM" is the pair <<H, M>> of *)
(* its numbers; it is only ever parsed.                                    *)
(***************************************************************************)
EXTENDS Integers, Sequences, FiniteSets, TLC

VARIABLES
    cal,        \* one call of get_statistical_date: arguments, result, position
    view,       \* one run of the record-view tab: records, selection, metrics
    data,       \* DataManager.data, the in-memory store
    file,       \* the data file cargo_data_full.json
    now,        \* int(datetime.now().timestamp() * 1000)
    faults,     \* how many writes of the data file have failed so far
    last,       \* the handler that ran last and how it ended
    savedMax,   \* history: the greatest id a form save has produced so far
    undo,       \* history: the add_record that ran last (id, records before it)
    learned     \* history: per (from, to), the last positive income added

vars == <<cal, view, data, file, now, faults, last, savedMax, undo, learned>>

----------------------------------------------------------------------------
(* Python str values as code-point sequences                               *)

EmptyStr == <<>>

\* "안성", "안산", "용인", "이천", "인천"
Anseong == <<50504, 49457>>
Ansan == <<50504, 49328>>
Yongin == <<50857, 51064>>
Icheon == <<51060, 52380>>
Incheon == <<51064, 52380>>

\* "A", "A-A" (45 is the hyphen), "x"
NameA == <<65>>
NameAA == <<65, 45, 65>>
ItemX == <<120>>

Min2(a, b) == IF a < b THEN a ELSE b

\* Python's str.__lt__: the first differing code point decides, a proper
\* prefix is smaller.
StrLess(s, t) ==
    LET n == Min2(Len(s), Len(t))
        diff == {i \in 1..n : s[i] # t[i]}
    IN  IF diff = {}
        THEN Len(s) < Len(t)
        ELSE LET i == CHOOSE j \in diff : \A k \in diff : j <= k
             IN  s[i] < t[i]

\* list.sort() on a list of str: insertion of each element in order.
RECURSIVE InsertSorted(_, _)
InsertSorted(x, sorted) ==
    IF sorted = <<>> THEN <<x>>
    ELSE IF StrLess(x, Head(sorted)) THEN <<x>> \o sorted
    ELSE <<Head(sorted)>> \o InsertSorted(x, Tail(sorted))

RECURSIVE ListSort(_)
ListSort(l) ==
    IF l = <<>> THEN <<>> ELSE InsertSorted(Head(l), ListSort(Tail(l)))

InList(x, l) == \E i \in 1..Len(l) : l[i] = x

\* dict.get(k, default)
Get(d, k, default) == IF k \in DOMAIN d THEN d[k] ELSE default

\* d[k] = v on a dict
DictSet(d, k, v) == [x \in (DOMAIN d) \cup {k} |-> IF x = k THEN v ELSE d[x]]

\* d.update(e)
DictUpdate(d, e) ==
    [x \in (DOMAIN d) \cup (DOMAIN e) |-> IF x \in DOMAIN e THEN e[x] ELSE d[x]]

EmptyDict == <<>>

----------------------------------------------------------------------------
(* get_statistical_date                                                    *)

IsLeap(y) == (y % 4 = 0 /\ y % 100 # 0) \/ y % 400 = 0

DaysInMonth(y, m) ==
    IF m = 2 THEN (IF IsLeap(y) THEN 29 ELSE 28)
    ELSE IF m \in {4, 6, 9, 11} THEN 30 ELSE 31

\* "YYYY-MM-DD" as date.strftime("%Y-%m-%d") writes a day of the years 1000
\* to 9999
Iso(y, m, d) == <<y, m, d, 4, 2, 2>>

\* The calendar day a date string names
DayOf(date_str) == <<date_str[1], date_str[2], date_str[3]>>

Digits(n) == IF n < 10 THEN 1 ELSE IF n < 100 THEN 2 ELSE IF n < 1000 THEN 3 ELSE 4

\* datetime.strptime(..., "%Y-%m-%d %H:%M") accepts the fields: a ValueError
\* otherwise.  %Y takes exactly four digits, %m and %d one or two.
Parses(d, t) ==
    /\ d[4] = 4
    /\ d[1] \in 1..9999
    /\ d[2] \in 1..12
    /\ d[3] \in 1..DaysInMonth(d[1], d[2])
    /\ t[1] \in 0..23
    /\ t[2] \in 0..59

\* dt - timedelta(days=1) overflows below datetime.min (0001-01-01).
DayBeforeOverflows(d) == d = <<1, 1, 1>>

DayBefore(d) ==
    IF d[3] > 1 THEN <<d[1], d[2], d[3] - 1>>
    ELSE IF d[2] > 1 THEN <<d[1], d[2] - 1, DaysInMonth(d[1], d[2] - 1)>>
    ELSE <<d[1] - 1, 12, 31>>

\* dt.strftime("%Y-%m-%d"): month and day are zero-padded to two digits, the
\* year is written without padding (the C library's %Y).
Strftime(day) == <<day[1], day[2], day[3], Digits(day[1]), 2, 2>>

BeforeBoundaryMut(hour) == hour <= 4

\* dt.hour < 4
BeforeBoundary(hour) == hour < 4

get_statistical_date(date_str, time_str) ==
    IF ~Parses(date_str, time_str) THEN date_str
    ELSE IF BeforeBoundary(time_str[1])
         THEN IF DayBeforeOverflows(DayOf(date_str)) THEN date_str
              ELSE Strftime(DayBefore(DayOf(date_str)))
         ELSE Strftime(DayOf(date_str))

----------------------------------------------------------------------------
(* DataManager: the store                                                  *)

\* None, as record.get('from') gives it for a record without the field
NoneValue == <<-1>>

\* Python truthiness of a str or None
Truthy(s) == s # EmptyStr /\ s # NoneValue

RouteTypesMut == {"Transport", "Waiting", "Deadhead", "TripCancelled"}

\* record['type'] in ['화물운송', '대기', '공차이동']
RouteTypes == {"Transport", "Waiting", "Deadhead"}

\* self.data of __init__
DefaultData ==
    [records |-> <<>>,
     centers |-> <<Anseong, Ansan, Yongin, Icheon, Incheon>>,
     locations |-> EmptyDict,
     fares |-> EmptyDict,
     distances |-> EmptyDict,
     costs |-> EmptyDict,
     expense_items |-> <<>>,
     settings |-> [subsidy_limit |-> 0, mileage_correction |-> 0]]

DictKeys == {"locations", "fares", "distances", "costs", "settings"}

\* The outcome of a method body: the store it leaves, and whether it raised.
Ok(d) == [data |-> d, raised |-> FALSE]
Raise(d) == [data |-> d, raised |-> TRUE]

\* f"{record['from']}-{record['to']}"
RouteKey(from, to) == from \o <<45>> \o to

\* if value > 0: self.data[table][key] = value
LearnValue(res, table, key, value) ==
    IF res.raised \/ ~(value > 0) THEN res
    ELSE IF table \notin DOMAIN res.data THEN Raise(res.data)
    ELSE Ok([res.data EXCEPT ![table] = DictSet(@, key, value)])

\* add_record, lines 75-79
LearnRoute(d, record) ==
    IF Truthy(Get(record, "from", NoneValue)) /\ Truthy(Get(record, "to", NoneValue))
    THEN LET key == RouteKey(record["from"], record["to"])
             f == LearnValue(Ok(d), "fares", key, Get(record, "income", 0))
             g == LearnValue(f, "distances", key, Get(record, "distance", 0))
         IN  LearnValue(g, "costs", key, Get(record, "cost", 0))
    ELSE Ok(d)

\* if loc and loc not in centers: centers.append(loc); centers.sort()
AddCenter(res, loc) ==
    IF res.raised \/ ~Truthy(loc) THEN res
    ELSE IF "centers" \notin DOMAIN res.data THEN Raise(res.data)
    ELSE IF InList(loc, res.data["centers"]) THEN res
    ELSE Ok([res.data EXCEPT !["centers"] = ListSort(Append(@, loc))])

\* add_record, lines 82-85
LearnCenters(res, record) ==
    AddCenter(AddCenter(res, Get(record, "from", NoneValue)),
              Get(record, "to", NoneValue))

\* add_record, lines 88-90
LearnExpenseItem(res, record) ==
    LET item == Get(record, "expenseItem", NoneValue)
    IN  IF res.raised \/ ~Truthy(item) THEN res
        ELSE IF "expense_items" \notin DOMAIN res.data THEN Raise(res.data)
        ELSE IF InList(item, res.data["expense_items"]) THEN res
        ELSE Ok([res.data EXCEPT !["expense_items"] = ListSort(Append(@, item))])

\* self.data["records"].append(record)
AppendRecord(res, record) ==
    IF res.raised THEN res
    ELSE IF "records" \notin DOMAIN res.data THEN Raise(res.data)
    ELSE Ok([res.data EXCEPT !["records"] = Append(@, record)])

\* add_record up to its save_data call
add_record(d, record) ==
    LET learnt == IF record["type"] \in RouteTypes
                  THEN LearnCenters(LearnRoute(d, record), record)
                  ELSE Ok(d)
    IN  AppendRecord(LearnExpenseItem(learnt, record), record)

KeepOthers(records, record_id) ==
    SelectSeq(records, LAMBDA r : r["id"] # record_id)

\* delete_record up to its save_data call
delete_record(d, record_id) ==
    IF "records" \notin DOMAIN d THEN Raise(d)
    ELSE Ok([d EXCEPT !["records"] = KeepOthers(@, record_id)])

\* update_location up to its save_data call
update_location(d, name, address, memo) ==
    IF "centers" \notin DOMAIN d THEN Raise(d)
    ELSE LET c == IF InList(name, d["centers"]) THEN d
                  ELSE [d EXCEPT !["centers"] = ListSort(Append(@, name))]
         IN  IF "locations" \notin DOMAIN c THEN Raise(c)
             ELSE Ok([c EXCEPT !["locations"] =
                         DictSet(@, name, [address |-> address, memo |-> memo])])

----------------------------------------------------------------------------
(* The data file and JSON                                                  *)

DumpsMut(d) == {<<k, d[k]>> : k \in (DOMAIN d) \ {"settings"}}

\* json.dumps of a JSON object: its members <<key, value>>, one per key.  A
\* member whose value is a JSON number, true, false or null is written
\* <<key, value, "scalar">>; the store's own top-level values are lists and
\* dicts.
Dumps(d) == {<<k, d[k]>> : k \in DOMAIN d}

\* json.loads of an object's text: the dict of its members.
Loads(text) ==
    [k \in {m[1] : m \in text} |-> (CHOOSE m \in text : m[1] = k)[2]]

\* The file: absent, a complete JSON text, or a text cut short.
NoFile == [state |-> "absent", text |-> {}]
Complete(text) == [state |-> "complete", text |-> text]
Truncated == [state |-> "truncated", text |-> {}]

DiskOutcomes == {"ok", "open_fails", "write_fails"}

save_data_mut(d, f, disk) ==
    IF disk = "ok" THEN Complete(Dumps([k \in (DOMAIN d) \ {"settings"} |-> d[k]]))
    ELSE IF disk = "open_fails" THEN f
    ELSE Truncated

\* save_data: open(filename, 'w') truncates, json.dump writes the whole of
\* self.data; an exception on the way is reported and swallowed.
save_data(d, f, disk) ==
    IF disk = "ok" THEN Complete(Dumps(d))
    ELSE IF disk = "open_fails" THEN f
    ELSE Truncated

\* The keys whose value in the text is a number, true, false or null:
\* dict.update raises a TypeError on such a value.
ScalarKeys(text) == {m[1] : m \in {n \in text : Len(n) = 3}}

\* for key in self.data: the keys in the order __init__ inserts them
KeyOrder == <<"records", "centers", "locations", "fares", "distances", "costs",
              "expense_items", "settings">>

\* The loop of load_data from the i-th key on: dict-valued keys are updated,
\* the others replaced; an exception ends the loop and is swallowed.
RECURSIVE MergeFrom(_, _, _, _)
MergeFrom(d, loaded, scalars, i) ==
    IF i > Len(KeyOrder) THEN d
    ELSE LET key == KeyOrder[i]
         IN  IF key \notin DOMAIN loaded THEN MergeFrom(d, loaded, scalars, i + 1)
             ELSE IF key \notin DictKeys
                  THEN MergeFrom([d EXCEPT ![key] = loaded[key]], loaded, scalars, i + 1)
             ELSE IF key \in scalars THEN d
             ELSE MergeFrom([d EXCEPT ![key] = DictUpdate(@, loaded[key])],
                            loaded, scalars, i + 1)

\* load_data over DefaultData
MergeLoaded(loaded, scalars) == MergeFrom(DefaultData, loaded, scalars, 1)

\* __init__ followed by load_data
load_data(f) ==
    IF f.state = "absent" THEN DefaultData
    ELSE IF f.state = "truncated" THEN DefaultData
    ELSE MergeLoaded(Loads(f.text), ScalarKeys(f.text))

----------------------------------------------------------------------------
(* main(): the entry form                                                  *)

MaxRecords == 2
MaxClock == 2
MaxFaults == 1

Max2(a, b) == IF a < b THEN b ELSE a

\* in_date, in_time of the form
FormWhen == {[date |-> Iso(2025, 3, 10), time |-> <<3, 59>>]}

CenterOptions(d) == {EmptyStr} \cup {d["centers"][i] : i \in 1..Len(d["centers"])}

\* The (in_income, in_cost) entries the model tries for a trip, in 10,000 won
TripAmounts == {<<0, 0>>, <<15, 0>>}

\* The widget states the model tries: the type, and the values of the widgets
\* that type shows.
Widgets ==
    {[in_type |-> "Transport", f_center |-> Ansan, t_center |-> Anseong,
      distance |-> 300, in_income |-> a[1], in_cost |-> a[2], subsidy |-> 0,
      item |-> EmptyStr, u_price |-> 0, liters |-> 0, brand |-> "",
      mileage |-> 0] : a \in TripAmounts}

RouteFormTypes == {"Transport", "Waiting", "Deadhead", "TripCancelled"}
IncomeFormTypes == {"Transport", "Income", "Waiting"}
CostFormTypes == {"Fuel", "Expense", "Supply", "Deadhead"}
ItemFormTypes == {"Income", "Expense", "Supply"}

\* Lines 224-303 run without a KeyError for this widget state.
TabInputRenders(d, w) ==
    /\ w.in_type \in RouteFormTypes =>
         /\ "centers" \in DOMAIN d
         /\ w.f_center \in CenterOptions(d)
         /\ w.t_center \in CenterOptions(d)
         /\ (Truthy(w.f_center) \/ Truthy(w.t_center)) => "locations" \in DOMAIN d
         /\ (Truthy(w.f_center) /\ Truthy(w.t_center)) =>
               {"distances", "fares", "costs"} \subseteq DOMAIN d
    /\ w.in_type \in ItemFormTypes => "expense_items" \in DOMAIN d

\* int(in_income * 10000): the amounts are entered in units of 10,000 won
ToWon(amount) == amount * 10000

\* new_record of the save button, lines 309-326
NewRecord(w, when, id) ==
    [id |-> id,
     date |-> when.date,
     time |-> when.time,
     type |-> w.in_type,
     income |-> IF w.in_type \in IncomeFormTypes THEN ToWon(w.in_income) ELSE 0,
     cost |-> IF w.in_type \in CostFormTypes THEN ToWon(w.in_cost) ELSE 0,
     distance |-> IF w.in_type \in RouteFormTypes THEN w.distance ELSE 0,
     from |-> IF w.in_type \in RouteFormTypes THEN w.f_center ELSE EmptyStr,
     to |-> IF w.in_type \in RouteFormTypes THEN w.t_center ELSE EmptyStr,
     unitPrice |-> IF w.in_type = "Fuel" THEN w.u_price ELSE 0,
     liters |-> IF w.in_type = "Fuel" THEN w.liters ELSE 0,
     subsidy |-> IF w.in_type = "Fuel" THEN w.subsidy ELSE 0,
     brand |-> IF w.in_type = "Fuel" THEN w.brand ELSE "",
     expenseItem |-> IF w.in_type \in ItemFormTypes /\ w.in_type # "Supply"
                     THEN w.item ELSE EmptyStr,
     supplyItem |-> IF w.in_type = "Supply" THEN w.item ELSE EmptyStr,
     mileage |-> IF w.in_type = "Supply" THEN w.mileage ELSE 0]

\* The record of the trip-end button, lines 333-339
TripEndRecord(when, id) ==
    [id |-> id, date |-> when.date, time |-> when.time, type |-> "TripEnd",
     income |-> 0, cost |-> 0, distance |-> 0]

\* The record shows in the record view for some year 2023..2029 and month.
Visible(r) ==
    LET sd == get_statistical_date(r["date"], r["time"])
    IN  sd[1] \in 2023..2029 /\ sd[4] = 4 /\ sd[2] \in 1..12 /\ sd[5] = 2

\* Lines 361-502 run without a KeyError (for a month whose view is empty).
SettingsTabRenders(d) ==
    /\ {"records", "settings", "centers"} \subseteq DOMAIN d
    /\ (Len(d["centers"]) > 0 /\ Truthy(d["centers"][1])) => "locations" \in DOMAIN d

\* What a handler's writes may meet: a further failure only below the bound.
DiskChoices == IF faults < MaxFaults THEN DiskOutcomes ELSE {"ok"}

Faults(disk) == IF disk = "ok" THEN faults ELSE faults + 1

\* A DataManager method body followed by its save_data call.
Flush(res, disk) ==
    /\ data' = res.data
    /\ file' = IF res.raised THEN file ELSE save_data(res.data, file, disk)
    /\ faults' = IF res.raised THEN faults ELSE Faults(disk)

Ended(op, res, disk) ==
    [op |-> op, raised |-> res.raised, disk |-> IF res.raised THEN "none" ELSE disk]

RecordCount(d) == IF "records" \in DOMAIN d THEN Len(d["records"]) ELSE 0

Tick ==
    /\ now < MaxClock
    /\ now' = now + 1
    /\ UNCHANGED <<cal, view, data, file, faults, last, savedMax, undo, learned>>

\* "기록 저장": lines 308-330
SaveButton ==
    \E w \in Widgets, when \in FormWhen, disk \in DiskChoices :
        /\ TabInputRenders(data, w)
        /\ RecordCount(data) < MaxRecords
        /\ LET res == add_record(data, NewRecord(w, when, now))
           IN  /\ Flush(res, disk)
               /\ last' = Ended("save", res, disk)
               /\ savedMax' = IF res.raised THEN savedMax ELSE Max2(savedMax, now)
        /\ UNCHANGED <<cal, view, now, undo, learned>>

\* "운행 종료": lines 332-341
TripEndButton ==
    \E when \in FormWhen, disk \in DiskChoices :
        /\ RecordCount(data) < MaxRecords
        /\ LET res == add_record(data, TripEndRecord(when, now))
           IN  /\ Flush(res, disk)
               /\ last' = Ended("trip_end", res, disk)
               /\ savedMax' = IF res.raised THEN savedMax ELSE Max2(savedMax, now)
        /\ UNCHANGED <<cal, view, now, undo, learned>>

\* "선택 삭제": lines 404-409
DeleteButton ==
    \E disk \in DiskChoices :
        /\ "records" \in DOMAIN data
        /\ \E i \in 1..Len(data["records"]) :
              /\ Visible(data["records"][i])
              /\ LET res == delete_record(data, data["records"][i]["id"])
                 IN  /\ Flush(res, disk)
                     /\ last' = Ended("delete", res, disk)
        /\ UNCHANGED <<cal, view, now, savedMax, undo, learned>>

----------------------------------------------------------------------------
(* main(): the settings tab                                                *)

\* (new_limit, new_corr) of the settings form
SettingsInputs == {<<300, -5>>}

\* Lines 487-488
set_settings(d, limit, corr) ==
    IF "settings" \notin DOMAIN d THEN Raise(d)
    ELSE Ok([d EXCEPT !["settings"] =
                DictSet(DictSet(@, "subsidy_limit", limit), "mileage_correction", corr)])

\* "설정 저장": lines 486-490
SettingsSubmit ==
    \E s \in SettingsInputs, disk \in DiskChoices :
        /\ SettingsTabRenders(data)
        /\ LET res == set_settings(data, s[1], s[2])
           IN  /\ Flush(res, disk)
               /\ last' = Ended("settings", res, disk)
        /\ UNCHANGED <<cal, view, now, savedMax, undo, learned>>

\* (new_addr, new_memo) of the location form
LocationInputs == {<<"dock 3", "">>}

\* "정보 업데이트": lines 495-502; sel_center is one of centers
UpdateLocationButton ==
    \E i \in {1}, a \in LocationInputs, disk \in DiskChoices :
        /\ SettingsTabRenders(data)
        /\ i <= Len(data["centers"])
        /\ Truthy(data["centers"][i])
        /\ LET res == update_location(data, data["centers"][i], a[1], a[2])
           IN  /\ Flush(res, disk)
               /\ last' = Ended("update_location", res, disk)
        /\ UNCHANGED <<cal, view, now, savedMax, undo, learned>>

BatchOneMut(r, batch_f, batch_t, target_inc) ==
    IF /\ r["type"] = "Transport"
       /\ Get(r, "from", NoneValue) = batch_f
       /\ Get(r, "to", NoneValue) = batch_t
    THEN [x \in (DOMAIN r) \cup {"income"} |-> IF x = "income" THEN target_inc ELSE r[x]]
    ELSE r

\* Lines 515-517, for one record
BatchOne(r, batch_f, batch_t, target_inc) ==
    IF /\ r["type"] = "Transport"
       /\ Get(r, "from", NoneValue) = batch_f
       /\ Get(r, "to", NoneValue) = batch_t
       /\ Get(r, "income", 0) = 0
    THEN [x \in (DOMAIN r) \cup {"income"} |-> IF x = "income" THEN target_inc ELSE r[x]]
    ELSE r

\* Lines 512-518
batch_apply(d, batch_f, batch_t, target_inc) ==
    IF "records" \notin DOMAIN d THEN Raise(d)
    ELSE Ok([d EXCEPT !["records"] =
                [i \in 1..Len(@) |-> BatchOne(@[i], batch_f, batch_t, target_inc)]])

\* The (batch_f, batch_t) selections the model tries, each out of centers.
BatchRoutes == {<<Ansan, Anseong>>}

\* batch_inc of the batch form
BatchAmounts == {7}

\* "일괄 적용 실행": lines 508-520
BatchButton ==
    \E p \in BatchRoutes, inc \in BatchAmounts, disk \in DiskChoices :
        /\ SettingsTabRenders(data)
        /\ InList(p[1], data["centers"])
        /\ InList(p[2], data["centers"])
        /\ LET res == batch_apply(data, p[1], p[2], ToWon(inc))
           IN  /\ Flush(res, disk)
               /\ last' = Ended("batch", res, disk)
        /\ UNCHANGED <<cal, view, now, savedMax, undo, learned>>

SampleWidget ==
    [in_type |-> "Transport", f_center |-> Ansan, t_center |-> Anseong,
     distance |-> 300, in_income |-> 0, in_cost |-> 0, subsidy |-> 0,
     item |-> EmptyStr, u_price |-> 0, liters |-> 0, brand |-> "", mileage |-> 0]

\* A backup of another session: the store after one unsettled trip was saved.
SampleData ==
    add_record(DefaultData,
               NewRecord(SampleWidget, [date |-> Iso(2025, 3, 10), time |-> <<3, 59>>], 1)).data

\* {"centers": []}
NoRecordsPayload == Complete(Dumps([centers |-> <<>>]))

\* The uploaded files the model tries: the backup just downloaded (line 542),
\* a backup of another day, a JSON object without records, and a file that is
\* not JSON.
Uploads(d) ==
    {Complete(Dumps(d)), Complete(Dumps(SampleData)), NoRecordsPayload, Truncated}

\* Lines 547-550: json.loads raises on a text that is not JSON, and
\* dm.data = content otherwise.
restore(d, up_file) ==
    IF up_file.state # "complete" THEN Raise(d)
    ELSE Ok(Loads(up_file.text))

\* "복원하기 (덮어쓰기)": lines 545-554, for one uploaded file
RestoreUpload(up_file, disk) ==
    /\ SettingsTabRenders(data)
    /\ LET res == restore(data, up_file)
       IN  /\ Flush(res, disk)
           /\ last' = Ended("restore", res, disk)
    /\ UNCHANGED <<cal, view, now, savedMax, undo, learned>>

RestoreButton ==
    \E up_file \in Uploads(data), disk \in DiskChoices : RestoreUpload(up_file, disk)

\* A new session: lines 196-197, DataManager() and its load_data
Restart ==
    /\ data' = load_data(file)
    /\ last' = [op |-> "restart", raised |-> FALSE, disk |-> "none"]
    /\ UNCHANGED <<cal, view, file, now, faults, savedMax, undo, learned>>

----------------------------------------------------------------------------
(* The session                                                             *)

CalIdle == [pc |-> "idle", date_str |-> Iso(0, 0, 0), time_str |-> <<0, 0>>,
            result |-> Iso(0, 0, 0)]

ViewIdle == [pc |-> "idle", ym |-> <<0, 0>>, filtered |-> <<>>,
             tot_inc |-> 0, real_exp |-> 0, tot_sub |-> 0, net |-> 0]

NoUndo == [stage |-> "none", id |-> 0, before |-> <<>>]

\* DataManager() with no data file on disk
StoreInit ==
    /\ file = NoFile
    /\ data = load_data(NoFile)
    /\ now = 1
    /\ faults = 0
    /\ last = [op |-> "init", raised |-> FALSE, disk |-> "none"]
    /\ savedMax = 0
    /\ undo = NoUndo
    /\ learned = EmptyDict

Init ==
    /\ StoreInit
    /\ cal = CalIdle
    /\ view = ViewIdle

Next ==
    \/ Tick
    \/ SaveButton
    \/ DeleteButton
    \/ SettingsSubmit
    \/ UpdateLocationButton
    \/ BatchButton
    \/ RestoreButton
    \/ Restart

\* The whole session but for the trip-end button.
Spec == Init /\ [][Next]_vars

NextEntry ==
    \/ Tick
    \/ SaveButton
    \/ TripEndButton
    \/ DeleteButton

\* The entry form and the record view: saving, ending a trip, deleting.
SpecEntry == Init /\ [][NextEntry]_vars

----------------------------------------------------------------------------
(* DataManager called directly                                             *)

\* The records the direct calls try: <<type, from, to, income, distance, cost,
\* expenseItem>>, each under the ids 1 and 2.
DMShapes ==
    {<<"Transport", NameAA, NameA, 50000, 120, 0, EmptyStr>>,
     <<"Transport", NameA, NameAA, 70000, 0, 3000, EmptyStr>>,
     <<"Transport", NameA, NameAA, 0, 0, 0, EmptyStr>>,
     <<"Waiting", EmptyStr, NameA, 30000, 0, 0, EmptyStr>>,
     <<"TripCancelled", NameA, NameA, 0, 80, 0, EmptyStr>>,
     <<"Expense", EmptyStr, EmptyStr, 0, 0, 10000, ItemX>>}

DMRecord(shape, id) ==
    [id |-> id, date |-> Iso(2025, 3, 10), time |-> <<12, 0>>, type |-> shape[1],
     income |-> shape[4], cost |-> shape[6], distance |-> shape[5],
     from |-> shape[2], to |-> shape[3], unitPrice |-> 0, liters |-> 0,
     subsidy |-> 0, brand |-> "", expenseItem |-> shape[7],
     supplyItem |-> EmptyStr, mileage |-> 0]

DMIds == {1, 2}

\* History: the last positive income added for the pair (from, to).
Learn(record) ==
    IF /\ record["type"] \in RouteTypes
       /\ Truthy(record["from"])
       /\ Truthy(record["to"])
       /\ record["income"] > 0
    THEN DictSet(learned, <<record["from"], record["to"]>>, record["income"])
    ELSE learned

\* dm.add_record(record)
DMAddRecord ==
    \E shape \in DMShapes, id \in DMIds :
        /\ RecordCount(data) < MaxRecords
        /\ LET record == DMRecord(shape, id)
               res == add_record(data, record)
           IN  /\ Flush(res, "ok")
               /\ last' = Ended("add_record", res, "ok")
               /\ undo' = [stage |-> "added", id |-> id, before |-> data["records"]]
               /\ learned' = Learn(record)
        /\ UNCHANGED <<cal, view, now, savedMax>>

\* dm.delete_record(record_id)
DMDeleteRecord ==
    \E id \in DMIds :
        /\ LET res == delete_record(data, id)
           IN  /\ Flush(res, "ok")
               /\ last' = Ended("delete_record", res, "ok")
        /\ undo' = IF undo.stage = "added" /\ undo.id = id
                   THEN [undo EXCEPT !.stage = "deleted"]
                   ELSE NoUndo
        /\ UNCHANGED <<cal, view, now, savedMax, learned>>

\* dm.update_location(name, address, memo)
DMUpdateLocation ==
    \E name \in {NameA, Ansan}, a \in LocationInputs :
        /\ LET res == update_location(data, name, a[1], a[2])
           IN  /\ Flush(res, "ok")
               /\ last' = Ended("update_location", res, "ok")
        /\ undo' = NoUndo
        /\ UNCHANGED <<cal, view, now, savedMax, learned>>

NextDM ==
    \/ DMAddRecord
    \/ DMDeleteRecord
    \/ DMUpdateLocation

\* The DataManager methods called in any order on a fresh store.
SpecDM == Init /\ [][NextDM]_vars

----------------------------------------------------------------------------
(* One call of get_statistical_date                                        *)

\* The arguments tried: field values in and just out of range, the years
\* around leap days and the first year datetime has.
CalYears == {1, 2000, 2024, 2100}
CalMonths == {0, 1, 2, 3, 5, 12, 13}
CalDays == {0, 1, 2, 28, 29, 30, 31, 32}
CalHours == {0, 3, 4, 23, 24}
CalMinutes == {0, 59, 60}

\* The widths a field of value n is tried with: zero-padded to full, and bare.
Widths(n, full) == {full} \cup {w \in {Digits(n)} : w <= full}

InitDate ==
    /\ StoreInit
    /\ view = ViewIdle
    /\ cal \in UNION {{[pc |-> "call", date_str |-> <<y, m, d, yw, mw, dw>>,
                         time_str |-> <<h, mi>>, result |-> Iso(0, 0, 0)] :
                           yw \in Widths(y, 4), mw \in Widths(m, 2),
                           dw \in Widths(d, 2), h \in CalHours, mi \in CalMinutes} :
                      y \in CalYears, m \in CalMonths, d \in CalDays}

CallStatDate ==
    /\ cal.pc = "call"
    /\ cal' = [cal EXCEPT !.pc = "done",
                          !.result = get_statistical_date(cal.date_str, cal.time_str)]
    /\ UNCHANGED <<view, data, file, now, faults, last, savedMax, undo, learned>>

SpecDate == InitDate /\ [][CallStatDate]_vars

----------------------------------------------------------------------------
(* The record view, lines 358-374                                          *)

MaxView == 3

\* The records the view is tried on: <<date, time, type, income, cost,
\* subsidy>>; the statistical date of the third is in March, of the fourth in
\* February.
ViewShapes ==
    {<<Iso(2025, 3, 10), <<12, 0>>, "Fuel", 0, 100000, 20000>>,
     <<Iso(2025, 3, 10), <<12, 0>>, "Transport", 150000, 0, 0>>,
     <<Iso(2025, 4, 1), <<2, 0>>, "Transport", 150000, 0, 0>>,
     <<Iso(2025, 3, 1), <<3, 0>>, "Expense", 0, 10000, 0>>,
     <<Iso(2025, 3, 10), <<12, 0>>, "TripEnd", 0, 0, 0>>}

ViewRecord(shape, id) ==
    IF shape[3] = "TripEnd"
    THEN TripEndRecord([date |-> shape[1], time |-> shape[2]], id)
    ELSE [id |-> id, date |-> shape[1], time |-> shape[2], type |-> shape[3],
          income |-> shape[4], cost |-> shape[5], distance |-> 0,
          from |-> EmptyStr, to |-> EmptyStr, unitPrice |-> 0, liters |-> 0,
          subsidy |-> shape[6], brand |-> "", expenseItem |-> EmptyStr,
          supplyItem |-> EmptyStr, mileage |-> 0]

\* The record lists the view is tried on: up to MaxView records.
ViewStores ==
    UNION {{[i \in 1..n |-> ViewRecord(c[i], i)] : c \in [1..n -> ViewShapes]} :
              n \in 0..MaxView}

\* (view_year, view_month) of the two select boxes
ViewMonths == {<<2025, 3>>, <<2025, 4>>}

\* A session whose data file held these records.
InitView ==
    /\ data \in {[DefaultData EXCEPT !["records"] = recs] : recs \in ViewStores}
    /\ file = Complete(Dumps(data))
    /\ now = 1
    /\ faults = 0
    /\ last = [op |-> "init", raised |-> FALSE, disk |-> "none"]
    /\ savedMax = 0
    /\ undo = NoUndo
    /\ learned = EmptyDict
    /\ cal = CalIdle
    /\ view = ViewIdle

\* x['date'] + x['time'] of two rows compared, for the zero-padded strings
\* the entry form stores: the order of the five numbers
KeyLess(a, b) ==
    LET ka == DayOf(a["date"]) \o a["time"]
        kb == DayOf(b["date"]) \o b["time"]
        diff == {i \in 1..5 : ka[i] # kb[i]}
    IN  diff # {} /\ LET i == CHOOSE j \in diff : \A k \in diff : j <= k
                     IN  ka[i] < kb[i]

\* filtered.sort(key=..., reverse=True): a stable sort, latest first
RECURSIVE InsertLatestFirst(_, _)
InsertLatestFirst(x, sorted) ==
    IF sorted = <<>> THEN <<x>>
    ELSE IF KeyLess(Head(sorted), x) THEN <<x>> \o sorted
    ELSE <<Head(sorted)>> \o InsertLatestFirst(x, Tail(sorted))

RECURSIVE SortLatestFirst(_)
SortLatestFirst(l) ==
    IF l = <<>> THEN <<>>
    ELSE InsertLatestFirst(l[Len(l)], SortLatestFirst(SubSeq(l, 1, Len(l) - 1)))

\* get_statistical_date(...).startswith(f"{view_year}-{view_month:02d}")
InMonth(r, ym) ==
    LET sd == get_statistical_date(r["date"], r["time"])
    IN  sd[1] = ym[1] /\ sd[4] = 4 /\ sd[2] = ym[2] /\ sd[5] = 2

\* Lines 361-362
Filtered(records, ym) ==
    SortLatestFirst(SelectSeq(records, LAMBDA r : InMonth(r, ym)))

\* sum(r.get(field, 0) for r in rows)
RECURSIVE SumOf(_, _)
SumOf(rows, field) ==
    IF rows = <<>> THEN 0 ELSE Get(Head(rows), field, 0) + SumOf(Tail(rows), field)

RealExpMut(tot_exp, tot_sub) == tot_exp

\* real_exp = tot_exp - tot_sub
RealExp(tot_exp, tot_sub) == tot_exp - tot_sub

\* Lines 361-374: the three metrics are shown when the view is not empty.
ViewTab ==
    \E ym \in ViewMonths :
        /\ view.pc = "idle"
        /\ "records" \in DOMAIN data
        /\ LET filtered == Filtered(data["records"], ym)
               tot_inc == SumOf(filtered, "income")
               tot_exp == SumOf(filtered, "cost")
               tot_sub == SumOf(filtered, "subsidy")
               real_exp == RealExp(tot_exp, tot_sub)
           IN  view' = [pc |-> IF filtered # <<>> THEN "shown" ELSE "empty",
                        ym |-> ym, filtered |-> filtered,
                        tot_inc |-> IF filtered # <<>> THEN tot_inc ELSE 0,
                        real_exp |-> IF filtered # <<>> THEN real_exp ELSE 0,
                        tot_sub |-> IF filtered # <<>> THEN tot_sub ELSE 0,
                        net |-> IF filtered # <<>> THEN tot_inc - real_exp ELSE 0]
        /\ UNCHANGED <<cal, data, file, now, faults, last, savedMax, undo, learned>>

SpecView == InitView /\ [][ViewTab]_vars

----------------------------------------------------------------------------
(* DataManager() over a stored data file                                   *)

\* A list-valued key in the file: absent, or holding the list
ListOptions(key, list) == {{}, {<<key, list>>}}

\* A dict-valued key in the file: absent, holding the object, or holding the
\* number 5
DictOptions(key, object) == {{}, {<<key, object>>}, {<<key, 5, "scalar">>}}

\* The JSON objects the data file is tried with
StoredTexts ==
    {r \cup c \cup l \cup f \cup di \cup co \cup e \cup st :
        r \in ListOptions("records", <<TripEndRecord(CHOOSE w \in FormWhen : TRUE, 1)>>),
        c \in ListOptions("centers", <<NameA>>),
        l \in DictOptions("locations", DictSet(EmptyDict, NameA,
                                               [address |-> "dock 3", memo |-> ""])),
        f \in DictOptions("fares", DictSet(EmptyDict, RouteKey(NameA, NameAA), 70000)),
        di \in DictOptions("distances", EmptyDict),
        co \in DictOptions("costs", EmptyDict),
        e \in ListOptions("expense_items", <<ItemX>>),
        st \in DictOptions("settings", DictSet(EmptyDict, "subsidy_limit", 300))}

\* No session yet, and a data file some earlier session or restore left
InitLoad ==
    /\ file \in {Complete(text) : text \in StoredTexts}
    /\ data = DefaultData
    /\ now = 1
    /\ faults = 0
    /\ last = [op |-> "init", raised |-> FALSE, disk |-> "none"]
    /\ savedMax = 0
    /\ undo = NoUndo
    /\ learned = EmptyDict
    /\ cal = CalIdle
    /\ view = ViewIdle

SpecLoad == InitLoad /\ [][Restart]_vars

----------------------------------------------------------------------------
(* Claims                                                                  *)

ValidDate(d) == d[1] >= 1 /\ d[2] \in 1..12 /\ d[3] \in 1..DaysInMonth(d[1], d[2])

DayAfter(d) ==
    IF d[3] < DaysInMonth(d[1], d[2]) THEN <<d[1], d[2], d[3] + 1>>
    ELSE IF d[2] < 12 THEN <<d[1], d[2] + 1, 1>>
    ELSE <<d[1] + 1, 1, 1>>

\* p is the calendar day before d
IsDayBefore(p, d) == ValidDate(p) /\ DayAfter(p) = d

CalDone == cal.pc = "done" /\ Parses(cal.date_str, cal.time_str)

\* C1 as stated: for every parseable date D and time HH:MM, the date
\* get_statistical_date returns is the calendar day before D when the hour is
\* 0 to 3 and the day D itself when the hour is 4 to 23.
C1_PreviousDayBeforeFour ==
    CalDone =>
        IF cal.time_str[1] \in 0..3
        THEN IsDayBefore(DayOf(cal.result), DayOf(cal.date_str))
        ELSE DayOf(cal.result) = DayOf(cal.date_str)

\* C1 as amended: the same, except that for D = 0001-01-01, the first day
\* datetime has, an hour of 0 to 3 returns D itself.
C1_PreviousDayUnlessFirstDay ==
    CalDone =>
        IF cal.time_str[1] \in 0..3 /\ DayOf(cal.date_str) # <<1, 1, 1>>
        THEN IsDayBefore(DayOf(cal.result), DayOf(cal.date_str))
        ELSE DayOf(cal.result) = DayOf(cal.date_str)

\* C1 witness: 03:59 on 1 March of a leap year went to 29 February.
C1_Witness ==
    /\ cal.pc = "done"
    /\ cal.date_str = Iso(2024, 3, 1)
    /\ cal.time_str = <<3, 59>>
    /\ cal.result = Iso(2024, 2, 29)

\* C2 as stated: for every pair (from, to) of non-empty names, fares["from-to"]
\* is the income of the route record added last for that pair with an income
\* above 0.
C2_FareIsLastPositiveIncome ==
    \A p \in DOMAIN learned :
        /\ RouteKey(p[1], p[2]) \in DOMAIN data["fares"]
        /\ data["fares"][RouteKey(p[1], p[2])] = learned[p]

\* C3 as stated: add_record(r) followed by delete_record(r.id) leaves the
\* records as they were before the add.
C3_AddThenDeleteRestores ==
    undo.stage = "deleted" => data["records"] = undo.before

\* C4 as stated: restoring a payload without a records key is rejected, and
\* the store and the data file stay as they were.
C4_RestoreWithoutRecordsRejected ==
    [][\A disk \in DiskOutcomes :
          RestoreUpload(NoRecordsPayload, disk) =>
              last'.raised /\ data' = data /\ file' = file]_vars

RECURSIVE PlainProfit(_)
PlainProfit(rows) ==
    IF rows = <<>> THEN 0
    ELSE Get(Head(rows), "income", 0) - Get(Head(rows), "cost", 0)
         + PlainProfit(Tail(rows))

RECURSIVE AdjustedProfit(_)
AdjustedProfit(rows) ==
    IF rows = <<>> THEN 0
    ELSE Get(Head(rows), "income", 0) - Get(Head(rows), "cost", 0)
         + Get(Head(rows), "subsidy", 0) + AdjustedProfit(Tail(rows))

\* [Fuel cost=100000 subsidy=20000, Transport income=150000 cost=0]
IsExample(rows) ==
    /\ Len(rows) = 2
    /\ rows[1]["type"] = "Fuel" /\ rows[1]["cost"] = 100000
    /\ rows[1]["subsidy"] = 20000 /\ rows[1]["income"] = 0
    /\ rows[2]["type"] = "Transport" /\ rows[2]["income"] = 150000
    /\ rows[2]["cost"] = 0 /\ rows[2]["subsidy"] = 0

\* C6 as stated: the net profit shown is the sum of income minus the sum of
\* cost over the records shown, with no subsidy adjustment; 50000 for the
\* example.
C6_NetIsIncomeMinusCost ==
    view.pc = "shown" =>
        /\ view.net = PlainProfit(view.filtered)
        /\ IsExample(view.filtered) => view.net = 50000

\* C6 as amended: the net profit shown is the sum of income minus the sum of
\* cost plus the sum of subsidy over the records shown; 70000 for the example.
C6_NetAddsSubsidyBack ==
    view.pc = "shown" =>
        /\ view.net = AdjustedProfit(view.filtered)
        /\ IsExample(view.filtered) => view.net = 70000

\* C6 witness: the example's two records were shown with a net profit of 70000.
C6_Witness ==
    /\ view.pc = "shown"
    /\ IsExample(view.filtered)
    /\ view.net = 70000

\* C7 as stated: centers is in strictly ascending order in every state.
C7_CentersStrictlyAscending ==
    \A i \in 1..(Len(data["centers"]) - 1) :
        StrLess(data["centers"][i], data["centers"][i + 1])

UniqueIds(d) ==
    "records" \in DOMAIN d =>
        \A i, j \in 1..Len(d["records"]) :
            i # j => d["records"][i]["id"] # d["records"][j]["id"]

\* C8 as stated: no two records have the same id, and a record saved through
\* the entry form gets an id above that of every record saved before.
C8_IdsUniqueAndIncreasing ==
    [][/\ UniqueIds(data')
       /\ ((SaveButton \/ TripEndButton) /\ ~last'.raised) => now > savedMax]_vars

Stored(d) == IF "records" \in DOMAIN d THEN d["records"] ELSE <<>>

Appended(before, after) ==
    Len(after) = Len(before) + 1 /\ SubSeq(after, 1, Len(before)) = before

Removed(before, after) ==
    \E i \in 1..Len(before) : after = KeepOthers(before, before[i]["id"])

Changed(before, after) == {i \in 1..Len(before) : after[i] # before[i]}

\* after is before with the income of every unsettled (income 0) Transport
\* record of one route set to one amount, and nothing else changed
BatchFilled(before, after) ==
    /\ Len(after) = Len(before)
    /\ \A i \in Changed(before, after) :
          /\ before[i]["type"] = "Transport"
          /\ Get(before[i], "income", 0) = 0
          /\ after[i] = [x \in (DOMAIN before[i]) \cup {"income"} |->
                            IF x = "income" THEN after[i]["income"] ELSE before[i][x]]
    /\ \A i, j \in Changed(before, after) :
          /\ after[i]["income"] = after[j]["income"]
          /\ Get(before[i], "from", NoneValue) = Get(before[j], "from", NoneValue)
          /\ Get(before[i], "to", NoneValue) = Get(before[j], "to", NoneValue)
    /\ \A i \in Changed(before, after), j \in 1..Len(before) :
          (/\ before[j]["type"] = "Transport"
           /\ Get(before[j], "income", 0) = 0
           /\ Get(before[j], "from", NoneValue) = Get(before[i], "from", NoneValue)
           /\ Get(before[j], "to", NoneValue) = Get(before[i], "to", NoneValue))
          => j \in Changed(before, after)

\* C9 as stated: the records change only by an append (add_record) or a
\* removal by id (delete_record); a stored record's fields never change.
C9_OnlyAppendOrRemove ==
    [][\/ Stored(data') = Stored(data)
       \/ Appended(Stored(data), Stored(data'))
       \/ Removed(Stored(data), Stored(data'))]_vars

\* C9 as amended: apart from a backup restore and a new session's load_data,
\* which replace the whole store, the records change only by an append
\* (add_record), a removal by id (delete_record), or the batch fare apply, which
\* sets the income of every Transport record of the chosen route whose income
\* is 0 to the entered amount and changes nothing else.
C9_AppendRemoveOrBatchFill ==
    [][\/ Stored(data') = Stored(data)
       \/ last'.op \in {"restore", "restart"}
       \/ last'.op \in {"save", "trip_end"} /\ Appended(Stored(data), Stored(data'))
       \/ last'.op = "delete" /\ Removed(Stored(data), Stored(data'))
       \/ last'.op = "batch" /\ BatchFilled(Stored(data), Stored(data'))]_vars

\* C9 witness: the batch fare apply has filled in the income of a stored trip.
C9_Witness ==
    /\ last.op = "batch"
    /\ \E i \in 1..RecordCount(data) :
          /\ data["records"][i]["type"] = "Transport"
          /\ data["records"][i]["income"] = ToWon(7)

MutationOps == {"save", "trip_end", "delete", "update_location", "settings",
                "batch", "restore"}

\* C10: whenever add_record, delete_record, update_location, a settings save,
\* the batch fare update or a restore has completed with a successful write,
\* the data file holds the whole in-memory store.
C10_FlushedAfterEveryMutation ==
    (last.op \in MutationOps /\ ~last.raised /\ last.disk = "ok") =>
        file = Complete(Dumps(data))

\* C10 witness: a write had failed, and the settings save that followed wrote
\* a store of two records, a location and a learned fare to the file.
C10_Witness ==
    /\ last.op = "settings"
    /\ last.disk = "ok"
    /\ faults = 1
    /\ RecordCount(data) = 2
    /\ DOMAIN data["locations"] # {}
    /\ DOMAIN data["fares"] # {}
    /\ file = Complete(Dumps(data))

\* C11 as stated: a save is an atomic whole-file rewrite; after every step,
\* a failed write included, the data file is either what it was before or the
\* complete snapshot of the new store, never an empty or partial file.
C11_FileOldOrNewSnapshot ==
    [][file' = file \/ file' = Complete(Dumps(data'))]_vars

\* defaults overlaid with the entries of an object
Overlay(defaults, entries) ==
    [x \in (DOMAIN defaults) \cup (DOMAIN entries) |->
        IF x \in DOMAIN entries THEN entries[x] ELSE defaults[x]]

\* C12 as stated: load_data over a stored JSON object yields, for each key
\* missing from the file, the default; for each list-valued key in the file,
\* exactly the file's list; for each dict-valued key the file holds an object
\* for, the defaults overlaid with the file's entries.
C12_LoadMergesEveryKey ==
    (last.op = "restart" /\ file.state = "complete") =>
        LET loaded == Loads(file.text)
        IN  \A key \in DOMAIN DefaultData :
                /\ key \notin DOMAIN loaded => data[key] = DefaultData[key]
                /\ (key \in DOMAIN loaded /\ key \notin DictKeys) =>
                      data[key] = loaded[key]
                /\ (/\ key \in DOMAIN loaded
                    /\ key \in DictKeys
                    /\ key \notin ScalarKeys(file.text)) =>
                      data[key] = Overlay(DefaultData[key], loaded[key])

\* The record an add_record step has just appended
Added(d) == d["records"][Len(d["records"])]

HasRoute(r) == Truthy(Get(r, "from", NoneValue)) /\ Truthy(Get(r, "to", NoneValue))

\* table[from-to] is the record's value when that value is above 0
Learnt(table, r, field) ==
    Get(r, field, 0) > 0 =>
        /\ RouteKey(r["from"], r["to"]) \in DOMAIN table
        /\ table[RouteKey(r["from"], r["to"])] = r[field]

LearntAll(d, r) ==
    /\ Learnt(d["fares"], r, "income")
    /\ Learnt(d["distances"], r, "distance")
    /\ Learnt(d["costs"], r, "cost")

\* C13 as stated: after add_record of a record whose from and to are both
\* non-empty, whatever its type, fares, distances and costs hold the record's
\* income, distance and cost under "from-to", each when above 0.
C13_LearnsWhateverType ==
    [][(last'.op = "add_record" /\ ~last'.raised /\ HasRoute(Added(data'))) =>
          LearntAll(data', Added(data'))]_vars

\* C13 as amended: the same for a record whose type is Transport, Waiting or
\* Deadhead; add_record of a record of any other type leaves fares, distances
\* and costs as they were.
C13_LearnsRouteTypesOnly ==
    [][(last'.op = "add_record" /\ ~last'.raised) =>
          IF Added(data')["type"] \in {"Transport", "Waiting", "Deadhead"}
          THEN HasRoute(Added(data')) => LearntAll(data', Added(data'))
          ELSE /\ data'["fares"] = data["fares"]
               /\ data'["distances"] = data["distances"]
               /\ data'["costs"] = data["costs"]]_vars

\* C13 witness: a trip had taught a fare, and a cancelled trip with both
\* places and a distance was added without its route being learned.
C13_Witness ==
    /\ last.op = "add_record"
    /\ ~last.raised
    /\ Added(data)["type"] = "TripCancelled"
    /\ HasRoute(Added(data))
    /\ Added(data)["distance"] > 0
    /\ RouteKey(Added(data)["from"], Added(data)["to"]) \notin DOMAIN data["distances"]
    /\ DOMAIN data["fares"] # {}

====
